---------------------------- MODULE Spec2Model ----------------------------
(***************************************************************************)
(* A model of strason's JSON parser (src/src/parser.rs): the one-byte      *)
(* lookahead cursor `Parser`, the number lexer `parse_number`, the string  *)
(* lexer `parse_string`, and the recursive descent of `parse`.             *)
(*                                                                         *)
(* Bytes are the integers 0..255; a Rust `char` is its scalar value, so    *)
(* `c as char` of a byte is the same integer.  A String is the sequence    *)
(* of its chars.                                                           *)
(***************************************************************************)
EXTENDS Integers, Sequences, FiniteSets, TLC

VARIABLES
    input,      \* the items the byte source was built with (never changes)
    parser,     \* the Parser struct: iter, peek, line, col
    pc,         \* the function (and place in it) the program is executing
    state,      \* the running lexer's local `state`
    ret,        \* the running lexer's local `ret`
    utf16_be,   \* parse_string's local `utf16_be`
    num_str,    \* parse_string's local `num_str`
    ident,      \* eat_ident: the bytes of `ident` still to match
    stack,      \* the arrays and objects being parsed, innermost last
    cont,       \* where the running helper or lexer was called from
    result,     \* what the call under test returned
    yielded     \* the items a caller of Iterator::next has got, in order

vars == <<input, parser, pc, state, ret, utf16_be, num_str, ident, stack, cont, result, yielded>>

-----------------------------------------------------------------------------
(* Bounds of the model *)

\* longest byte source handed to parse_number
MaxNumLen == 4

\* most pieces of a source handed to parse_string between the quotes
MaxStrPieces == 3

\* most pieces of a source handed to parse_string without an opening quote
MaxBarePieces == 1

\* most pieces of a source of whitespace, keywords and letters handed to parse
MaxKeywordPieces == 4

\* most pieces of a document handed to parse
MaxDocPieces == 4

\* most elements of the array handed to parse as a well-formed document
MaxElems == 3

\* most entries of the object handed to parse as a well-formed document
MaxPairs == 2

\* most pieces of a document handed to parse by a source that fails once
MaxIoPieces == 3

\* longest source under a Parser whose peek, peek_noeof and eat are called
MaxCursorLen == 5

\* longest number put before a byte parse_number stops at
MaxTermLen == 3

\* most bytes of whitespace and '[' before a value that starts with an apostrophe
MaxAposLead == 2

\* most bytes after the apostrophe
MaxAposTail == 2

\* most pieces of a source parse is run to its end on
MaxHaltPieces == 4

\* longest byte source read through Iterator::next alone
MaxNextLen == 5

-----------------------------------------------------------------------------
(* Byte literals and option values *)

\* b'x' of the source is b["x"] (ASCII)
b ==
    (" " :> 32) @@ ("\"" :> 34) @@ ("'" :> 39) @@ ("+" :> 43) @@ ("," :> 44) @@
    ("-" :> 45) @@ ("." :> 46) @@ ("/" :> 47) @@ ("0" :> 48) @@ ("1" :> 49) @@ ("3" :> 51) @@ ("4" :> 52) @@ ("5" :> 53) @@ ("8" :> 56) @@
    ("9" :> 57) @@ (":" :> 58) @@ ("A" :> 65) @@ ("D" :> 68) @@ ("E" :> 69) @@
    ("F" :> 70) @@ ("[" :> 91) @@ ("\\" :> 92) @@ ("]" :> 93) @@ ("a" :> 97) @@
    ("b" :> 98) @@ ("c" :> 99) @@ ("d" :> 100) @@ ("e" :> 101) @@ ("f" :> 102) @@
    ("l" :> 108) @@ ("n" :> 110) @@ ("r" :> 114) @@ ("s" :> 115) @@ ("t" :> 116) @@
    ("u" :> 117) @@ ("x" :> 120) @@ ("{" :> 123) @@ ("}" :> 125) @@
    ("\n" :> 10) @@ ("\r" :> 13) @@ ("\t" :> 9)

\* the bytes of a text given char by char
Str(s) == [i \in 1..Len(s) |-> b[s[i]]]

\* Option::None of an Option<u8>, and of the iterator's Option<io::Result<u8>>
None == -1

\* an Err(io::Error) item of the byte source
IoErr == -2

-----------------------------------------------------------------------------
(* Results and errors *)

\* Json(JsonInner::..): b is the bool of a Bool, s the text of a Number or
\* String, items the elements of an Array or the values of an Object, keys the
\* keys of an Object
Json(t, bool, s, items, keys) == [t |-> t, b |-> bool, s |-> s, items |-> items, keys |-> keys]

NoJson == Json("None", FALSE, <<>>, <<>>, <<>>)
Null == Json("Null", FALSE, <<>>, <<>>, <<>>)
Bool(x) == Json("Bool", x, <<>>, <<>>, <<>>)
Number(s) == Json("Number", FALSE, s, <<>>, <<>>)
String(s) == Json("String", FALSE, s, <<>>, <<>>)
Array(items) == Json("Array", FALSE, <<>>, items, <<>>)
Object(keys, items) == Json("Object", FALSE, <<>>, items, keys)

NoResult ==
    [tag |-> "None", text |-> <<>>, json |-> NoJson, kind |-> "", ch |-> None,
     line |-> 0, col |-> 0]

\* Ok(String) of a lexer
Ok(text) ==
    [tag |-> "Ok", text |-> text, json |-> NoJson, kind |-> "", ch |-> None,
     line |-> 0, col |-> 0]

\* Ok(Json) of parse
OkJson(v) ==
    [tag |-> "Ok", text |-> <<>>, json |-> v, kind |-> "", ch |-> None,
     line |-> 0, col |-> 0]

\* Parser::error_at: the error kind with the cursor's line and column
error_at(p, kind, ch) ==
    [tag |-> "Err", text |-> <<>>, json |-> NoJson, kind |-> kind, ch |-> ch,
     line |-> p.line, col |-> p.col]

-----------------------------------------------------------------------------
(* The cursor *)

\* Parser::new
new(items) == [iter |-> items, peek |-> None, line |-> 1, col |-> 0]

\* next that counts the byte on every call, buffered or pulled
next_counts_every_call(p) ==
    IF p.peek # None
    THEN [p |-> [p EXCEPT !.peek = None, !.col = p.col + 1], r |-> p.peek]
    ELSE IF p.iter = <<>>
    THEN [p |-> p, r |-> None]
    ELSE LET ch == Head(p.iter)
             q  == [p EXCEPT !.iter = Tail(p.iter)]
         IN  IF ch = IoErr
             THEN [p |-> q, r |-> IoErr]
             ELSE IF ch = b["\n"]
             THEN [p |-> [q EXCEPT !.col = 0, !.line = p.line + 1, !.peek = ch], r |-> ch]
             ELSE [p |-> [q EXCEPT !.col = p.col + 1, !.peek = ch], r |-> ch]

\* next that hands a pulled byte over without buffering it
next_pull_unbuffered(p) ==
    IF p.peek # None
    THEN [p |-> [p EXCEPT !.peek = None], r |-> p.peek]
    ELSE IF p.iter = <<>>
    THEN [p |-> p, r |-> None]
    ELSE LET ch == Head(p.iter)
             q  == [p EXCEPT !.iter = Tail(p.iter)]
         IN  IF ch = IoErr
             THEN [p |-> q, r |-> IoErr]
             ELSE IF ch = b["\n"]
             THEN [p |-> [q EXCEPT !.col = 0, !.line = p.line + 1], r |-> ch]
             ELSE [p |-> [q EXCEPT !.col = p.col + 1], r |-> ch]

\* Iterator::next of Parser: the buffered byte is taken, or one item is pulled
\* from the source, counted and buffered.  r is the byte, None or IoErr.
next(p) ==
    IF p.peek # None
    THEN [p |-> [p EXCEPT !.peek = None], r |-> p.peek]
    ELSE IF p.iter = <<>>
    THEN [p |-> p, r |-> None]
    ELSE LET ch == Head(p.iter)
             q  == [p EXCEPT !.iter = Tail(p.iter)]
         IN  IF ch = IoErr
             THEN [p |-> q, r |-> IoErr]
             ELSE IF ch = b["\n"]
             THEN [p |-> [q EXCEPT !.col = 0, !.line = p.line + 1, !.peek = ch], r |-> ch]
             ELSE [p |-> [q EXCEPT !.col = p.col + 1, !.peek = ch], r |-> ch]

\* peek that takes a failed pull for the end of the source
peek_failure_as_end(p) ==
    LET n == next(p)
    IN  IF n.r = IoErr \/ n.r = None
        THEN [p |-> n.p, v |-> None, err |-> NoResult]
        ELSE [p |-> [n.p EXCEPT !.peek = n.r], v |-> n.r, err |-> NoResult]

\* Parser::peek: v is Some(byte) or None, err is the Io error if the pull failed
peek(p) ==
    LET n == next(p)
    IN  IF n.r = IoErr
        THEN [p |-> n.p, v |-> None, err |-> error_at(n.p, "Io", None)]
        ELSE IF n.r = None
        THEN [p |-> n.p, v |-> None, err |-> NoResult]
        ELSE [p |-> [n.p EXCEPT !.peek = n.r], v |-> n.r, err |-> NoResult]

\* Parser::peek_noeof
peek_noeof(p) ==
    LET k == peek(p)
    IN  IF k.err.tag = "Err" THEN k
        ELSE IF k.v = None
        THEN [p |-> k.p, v |-> None, err |-> error_at(k.p, "UnexpectedEOF", None)]
        ELSE k

\* Parser::eat
eat(p) == [p EXCEPT !.peek = None]

-----------------------------------------------------------------------------
(* Returns *)

\* an Err leaves every active call (each call site is a `?` or a return Err):
\* the call under test returns it
Throw(p, err) ==
    /\ parser' = p
    /\ result' = err
    /\ pc' = "done"
    /\ UNCHANGED <<stack, cont>>

\* an array or object being parsed: its `ret` (keys and values apart for an
\* object) and the `key` of the entry being read
Frame(kind) == [kind |-> kind, ret |-> <<>>, keys |-> <<>>, key |-> <<>>]

\* ParseReturn whose object keeps one entry per key, the last value winning
ParseReturn_one_entry_per_key(p, v, stk) ==
    /\ parser' = p
    /\ IF stk = <<>>
       THEN /\ pc' = "done"
            /\ result' = OkJson(v)
            /\ stack' = stk
            /\ UNCHANGED cont
       ELSE LET top == stk[Len(stk)]
                dup == IF top.kind = "object"
                       THEN {i \in 1..Len(top.keys) : top.keys[i] = top.key}
                       ELSE {}
            IN  /\ stack' = [stk EXCEPT ![Len(stk)] =
                                IF dup # {}
                                THEN [top EXCEPT !.ret = [i \in 1..Len(top.ret) |->
                                                             IF i \in dup THEN v ELSE top.ret[i]]]
                                ELSE [top EXCEPT !.ret = Append(top.ret, v),
                                                 !.keys = IF top.kind = "object"
                                                          THEN Append(top.keys, top.key)
                                                          ELSE top.keys]]
                /\ pc' = "eat_whitespace"
                /\ cont' = IF top.kind = "array" THEN "array_sep" ELSE "object_sep"
                /\ UNCHANGED result

\* ParseReturn whose array takes the elements of an inner array as its own
ParseReturn_inner_elements_leak(p, v, stk) ==
    /\ parser' = p
    /\ IF stk = <<>>
       THEN /\ pc' = "done"
            /\ result' = OkJson(v)
            /\ stack' = stk
            /\ UNCHANGED cont
       ELSE LET top == stk[Len(stk)]
            IN  /\ stack' = [stk EXCEPT ![Len(stk)] =
                                [top EXCEPT !.ret = IF top.kind = "array" /\ v.t = "Array"
                                                    THEN top.ret \o v.items
                                                    ELSE Append(top.ret, v),
                                            !.keys = IF top.kind = "object"
                                                     THEN Append(top.keys, top.key)
                                                     ELSE top.keys]]
                /\ pc' = "eat_whitespace"
                /\ cont' = IF top.kind = "array" THEN "array_sep" ELSE "object_sep"
                /\ UNCHANGED result

\* parse returns Ok(v) with the enclosing arrays and objects stk: the innermost
\* pushes v (an object with its key) and skips whitespace before its separator;
\* with none, the call under test returns
ParseReturn(p, v, stk) ==
    /\ parser' = p
    /\ IF stk = <<>>
       THEN /\ pc' = "done"
            /\ result' = OkJson(v)
            /\ stack' = stk
            /\ UNCHANGED cont
       ELSE LET top == stk[Len(stk)]
            IN  /\ stack' = [stk EXCEPT ![Len(stk)] =
                                [top EXCEPT !.ret = Append(top.ret, v),
                                            !.keys = IF top.kind = "object"
                                                     THEN Append(top.keys, top.key)
                                                     ELSE top.keys]]
                /\ pc' = "eat_whitespace"
                /\ cont' = IF top.kind = "array" THEN "array_sep" ELSE "object_sep"
                /\ UNCHANGED result

\* a lexer returns res to the code that called it: the call under test, or
\* parse for a number, a string value or an object key
Return(p, res) ==
    IF res.tag = "Err" THEN Throw(p, res)
    ELSE CASE cont = "number" -> ParseReturn(p, Number(res.text), stack)
           [] cont = "string" -> ParseReturn(p, String(res.text), stack)
           [] cont = "key" ->
                /\ parser' = p
                /\ stack' = [stack EXCEPT ![Len(stack)].key = res.text]
                /\ pc' = "eat_whitespace"
                /\ cont' = "object_colon"
                /\ UNCHANGED result
           [] OTHER ->
                /\ parser' = p
                /\ result' = res
                /\ pc' = "done"
                /\ UNCHANGED <<stack, cont>>

-----------------------------------------------------------------------------
(* parse_number *)

IsDigit(c) == c >= b["0"] /\ c <= b["9"]

NumberTerminators == {b[" "], b["\r"], b["\n"], b["}"], b["]"], b[","], b[":"]}

\* what a match arm does: push the byte and go on in state st, return an
\* error, or break out of the loop
Push(st) == [act |-> "push", st |-> st, kind |-> "", ch |-> None]
Fail(kind, ch) == [act |-> "err", st |-> "", kind |-> kind, ch |-> ch]
Break == [act |-> "break", st |-> "", kind |-> "", ch |-> None]

\* the arm b'+'
number_plus(st, c) ==
    IF st = "InExp" THEN Push("PastExp")
    ELSE Fail("UnexpectedCharacter", c)

\* the arm b'-'
number_minus(st, c) ==
    IF st = "InExp" THEN Push("PastExp")
    ELSE IF st # "Start" THEN Fail("UnexpectedCharacter", c)
    ELSE Push(st)

\* number_digit without the leading-zero check
number_digit_zero_unchecked(st, c) ==
    IF st = "Start"
    THEN IF c = b["0"] THEN Push("ZeroStart") ELSE Push("PreDecimal")
    ELSE Push(st)

\* the arm b'0' ... b'9'
number_digit(st, c) ==
    IF st = "Start"
    THEN IF c = b["0"] THEN Push("ZeroStart") ELSE Push("PreDecimal")
    ELSE IF st = "ZeroStart" THEN Fail("MalformedNumber", None)
    ELSE Push(st)

\* number_dot that also takes a '.' after the decimal point
number_dot_repeated(st) ==
    IF st = "PreDecimal" \/ st = "ZeroStart" \/ st = "PostDecimal" THEN Push("PostDecimal")
    ELSE Fail("MalformedNumber", None)

\* the arm b'.'
number_dot(st) ==
    IF st = "PreDecimal" \/ st = "ZeroStart" THEN Push("PostDecimal")
    ELSE Fail("MalformedNumber", None)

\* number_exp that forgets the exponent of a number starting with 0
number_exp_no_zero(st) ==
    IF st = "PreDecimal" \/ st = "PostDecimal" THEN Push("InExp")
    ELSE Fail("MalformedNumber", None)

\* the arm b'e' | b'E'
number_exp(st) ==
    IF st = "ZeroStart" \/ st = "PreDecimal" \/ st = "PostDecimal" THEN Push("InExp")
    ELSE Fail("MalformedNumber", None)

\* the match of one loop iteration on the peeked byte c
number_match(st, c) ==
    IF c = b["+"] THEN number_plus(st, c)
    ELSE IF c = b["-"] THEN number_minus(st, c)
    ELSE IF IsDigit(c) THEN number_digit(st, c)
    ELSE IF c = b["."] THEN number_dot(st)
    ELSE IF c \in NumberTerminators THEN Break
    ELSE IF c = b["e"] \/ c = b["E"] THEN number_exp(st)
    ELSE Fail("UnexpectedCharacter", c)

\* parse_number_loop whose break eats the byte it stopped at
parse_number_loop_eats_terminator ==
    /\ pc = "parse_number"
    /\ LET k == peek(parser)
       IN  IF k.err.tag = "Err"
           THEN Return(k.p, k.err) /\ UNCHANGED <<state, ret>>
           ELSE IF k.v = None
           THEN /\ parser' = k.p
                /\ pc' = "parse_number_end"
                /\ UNCHANGED <<state, ret, result, stack, cont>>
           ELSE LET m == number_match(state, k.v)
                IN  IF m.act = "err"
                    THEN Return(k.p, error_at(k.p, m.kind, m.ch)) /\ UNCHANGED <<state, ret>>
                    ELSE IF m.act = "break"
                    THEN /\ parser' = eat(k.p)
                         /\ pc' = "parse_number_end"
                         /\ UNCHANGED <<state, ret, result, stack, cont>>
                    ELSE /\ state' = m.st
                         /\ ret' = Append(ret, k.v)
                         /\ parser' = eat(k.p)
                         /\ UNCHANGED <<pc, result, stack, cont>>
    /\ UNCHANGED <<input, yielded, ident, utf16_be, num_str>>

\* one iteration of `while let Some(c) = self.peek()?`
parse_number_loop ==
    /\ pc = "parse_number"
    /\ LET k == peek(parser)
       IN  IF k.err.tag = "Err"
           THEN Return(k.p, k.err) /\ UNCHANGED <<state, ret>>
           ELSE IF k.v = None
           THEN /\ parser' = k.p
                /\ pc' = "parse_number_end"
                /\ UNCHANGED <<state, ret, result, stack, cont>>
           ELSE LET m == number_match(state, k.v)
                IN  IF m.act = "err"
                    THEN Return(k.p, error_at(k.p, m.kind, m.ch)) /\ UNCHANGED <<state, ret>>
                    ELSE IF m.act = "break"
                    THEN /\ parser' = k.p
                         /\ pc' = "parse_number_end"
                         /\ UNCHANGED <<state, ret, result, stack, cont>>
                    ELSE /\ state' = m.st
                         /\ ret' = Append(ret, k.v)
                         /\ parser' = eat(k.p)
                         /\ UNCHANGED <<pc, result, stack, cont>>
    /\ UNCHANGED <<input, yielded, ident, utf16_be, num_str>>

\* the `if state == State::Start` after the loop
parse_number_end ==
    /\ pc = "parse_number_end"
    /\ IF state = "Start"
       THEN Return(parser, error_at(parser, "MalformedNumber", None))
       ELSE Return(parser, Ok(ret))
    /\ UNCHANGED <<input, yielded, ident, state, ret, utf16_be, num_str>>

-----------------------------------------------------------------------------
(* parse_string *)

\* the value of a digit of radix 16, or None
hex_digit(c) ==
    IF c >= b["0"] /\ c <= b["9"] THEN c - b["0"]
    ELSE IF c >= b["a"] /\ c <= b["f"] THEN c - b["a"] + 10
    ELSE IF c >= b["A"] /\ c <= b["F"] THEN c - b["A"] + 10
    ELSE None

RECURSIVE radix16(_, _)
radix16(digits, acc) ==
    IF digits = <<>> THEN acc
    ELSE radix16(Tail(digits), acc * 16 + hex_digit(Head(digits)))

\* u16::from_str_radix(s, 16): a leading '+' is taken as a sign, each other
\* char must be a digit of radix 16, and the value must fit 16 bits
from_str_radix(s) ==
    LET digits == IF s # <<>> /\ Head(s) = b["+"] THEN Tail(s) ELSE s
    IN  IF digits = <<>> \/ \E i \in 1..Len(digits) : hex_digit(digits[i]) = None
        THEN [ok |-> FALSE, n |-> 0]
        ELSE IF radix16(digits, 0) > 65535
        THEN [ok |-> FALSE, n |-> 0]
        ELSE [ok |-> TRUE, n |-> radix16(digits, 0)]

\* pair_scalar without the offset of the supplementary planes
pair_scalar_no_offset(hi, lo) == (hi - 55296) * 1024 + (lo - 56320)

\* the scalar a surrogate pair encodes
pair_scalar(hi, lo) == 65536 + (hi - 55296) * 1024 + (lo - 56320)

\* a lossy decoding: every code unit is taken as a char of its own
decode_utf16_lossy(units) == [i \in 1..Len(units) |-> [ok |-> TRUE, ch |-> units[i]]]

\* char::decode_utf16: one Ok(char) or Err per scalar or unpaired surrogate
RECURSIVE decode_utf16(_)
decode_utf16(units) ==
    IF units = <<>> THEN <<>>
    ELSE LET u == Head(units)
         IN  IF u < 55296 \/ u > 57343
             THEN <<[ok |-> TRUE, ch |-> u]>> \o decode_utf16(Tail(units))
             ELSE IF u >= 56320
             THEN <<[ok |-> FALSE, ch |-> u]>> \o decode_utf16(Tail(units))
             ELSE IF Len(units) = 1
             THEN <<[ok |-> FALSE, ch |-> u]>>
             ELSE IF units[2] < 56320 \/ units[2] > 57343
             THEN <<[ok |-> FALSE, ch |-> u]>> \o decode_utf16(Tail(units))
             ELSE <<[ok |-> TRUE, ch |-> pair_scalar(u, units[2])]>>
                      \o decode_utf16(Tail(Tail(units)))

\* what an arm of parse_string's match does
Skip(st) == [act |-> "skip", st |-> st, c |-> None, kind |-> ""]
Emit(st, c) == [act |-> "push", st |-> st, c |-> c, kind |-> ""]
Close == [act |-> "close", st |-> "Done", c |-> None, kind |-> ""]
Raise(kind) == [act |-> "err", st |-> "", c |-> None, kind |-> kind]
Unicode == [act |-> "unicode", st |-> "", c |-> None, kind |-> ""]

\* escape_byte with the standard backspace for \b
escape_byte_backspace(c) ==
    IF c = b["b"] THEN Emit("Scanning", 8)
    ELSE IF c = b["f"] THEN Emit("Scanning", 12)
    ELSE IF c = b["n"] THEN Emit("Scanning", b["\n"])
    ELSE IF c = b["r"] THEN Emit("Scanning", b["\r"])
    ELSE IF c = b["t"] THEN Emit("Scanning", b["\t"])
    ELSE IF c = b["/"] THEN Emit("Scanning", b["/"])
    ELSE IF c = b["u"] THEN Unicode
    ELSE Raise("MalformedEscape")

\* escape_byte that lets an unknown escape stand for its own byte
escape_byte_lenient(c) ==
    IF c = b["b"] THEN Emit("Scanning", 7)
    ELSE IF c = b["f"] THEN Emit("Scanning", 12)
    ELSE IF c = b["n"] THEN Emit("Scanning", b["\n"])
    ELSE IF c = b["r"] THEN Emit("Scanning", b["\r"])
    ELSE IF c = b["t"] THEN Emit("Scanning", b["\t"])
    ELSE IF c = b["u"] THEN Unicode
    ELSE Emit("Scanning", c)

\* the match on the byte after a backslash, for a byte that is neither '"' nor
\* a backslash
escape_byte(c) ==
    IF c = b["b"] THEN Emit("Scanning", 7)
    ELSE IF c = b["f"] THEN Emit("Scanning", 12)
    ELSE IF c = b["n"] THEN Emit("Scanning", b["\n"])
    ELSE IF c = b["r"] THEN Emit("Scanning", b["\r"])
    ELSE IF c = b["t"] THEN Emit("Scanning", b["\t"])
    ELSE IF c = b["/"] THEN Emit("Scanning", b["/"])
    ELSE IF c = b["u"] THEN Unicode
    ELSE Raise("MalformedEscape")

\* string_match that takes an apostrophe for a quote
string_match_apostrophe(st, c) ==
    IF c = b["\""] \/ c = b["'"]
    THEN IF st = "Start" THEN Skip("Scanning")
         ELSE IF st = "Scanning" THEN Close
         ELSE Emit("Scanning", c)
    ELSE IF c = b["\\"]
    THEN IF st = "Start" THEN Raise("ExpectedString")
         ELSE IF st = "Scanning" THEN Skip("Escaping")
         ELSE Emit("Scanning", c)
    ELSE IF st = "Start" THEN Raise("ExpectedString")
         ELSE IF st = "Scanning" THEN Emit("Scanning", c)
         ELSE escape_byte(c)

\* the match of one loop iteration on the peeked byte c
string_match(st, c) ==
    IF c = b["\""]
    THEN IF st = "Start" THEN Skip("Scanning")
         ELSE IF st = "Scanning" THEN Close
         ELSE Emit("Scanning", c)
    ELSE IF c = b["\\"]
    THEN IF st = "Start" THEN Raise("ExpectedString")
         ELSE IF st = "Scanning" THEN Skip("Escaping")
         ELSE Emit("Scanning", c)
    ELSE IF st = "Start" THEN Raise("ExpectedString")
         ELSE IF st = "Scanning" THEN Emit("Scanning", c)
         ELSE escape_byte(c)

\* one iteration of `while let Some(mut c) = self.peek()?`; the b'u' arm goes
\* on in parse_string_u
parse_string_loop ==
    /\ pc = "parse_string"
    /\ LET k == peek(parser)
       IN  IF k.err.tag = "Err"
           THEN Return(k.p, k.err) /\ UNCHANGED <<state, ret, utf16_be>>
           ELSE IF k.v = None
           THEN /\ parser' = k.p
                /\ pc' = "parse_string_end"
                /\ UNCHANGED <<state, ret, utf16_be, result, stack, cont>>
           ELSE LET m == string_match(state, k.v)
                IN  CASE m.act = "err" ->
                            Return(k.p, error_at(k.p, m.kind, None))
                            /\ UNCHANGED <<state, ret, utf16_be>>
                      [] m.act = "skip" ->
                            /\ state' = m.st
                            /\ parser' = eat(k.p)
                            /\ UNCHANGED <<pc, ret, utf16_be, result, stack, cont>>
                      [] m.act = "close" ->
                            /\ state' = m.st
                            /\ parser' = eat(k.p)
                            /\ pc' = "parse_string_end"
                            /\ UNCHANGED <<ret, utf16_be, result, stack, cont>>
                      [] m.act = "push" ->
                            /\ state' = m.st
                            /\ ret' = Append(ret, m.c)
                            /\ parser' = eat(k.p)
                            /\ UNCHANGED <<pc, utf16_be, result, stack, cont>>
                      [] m.act = "unicode" ->
                            /\ utf16_be' = <<>>
                            /\ parser' = k.p
                            /\ pc' = "parse_string_u"
                            /\ UNCHANGED <<state, ret, result, stack, cont>>
    /\ UNCHANGED <<input, yielded, ident, num_str>>

\* the head of the loop that reads \uXXXX escapes in a row: the 'u' is eaten
\* and num_str starts empty
parse_string_u ==
    /\ pc = "parse_string_u"
    /\ parser' = eat(parser)
    /\ num_str' = <<>>
    /\ pc' = "parse_string_hex"
    /\ UNCHANGED <<input, yielded, ident, state, ret, utf16_be, result, stack, cont>>

\* num_str.push(self.peek_noeof()? as char); self.eat();  (four times)
parse_string_hex ==
    /\ pc = "parse_string_hex"
    /\ LET k == peek_noeof(parser)
       IN  IF k.err.tag = "Err"
           THEN Return(k.p, k.err) /\ UNCHANGED num_str
           ELSE /\ num_str' = Append(num_str, k.v)
                /\ parser' = eat(k.p)
                /\ pc' = IF Len(num_str) = 3 THEN "parse_string_push" ELSE pc
                /\ UNCHANGED <<result, stack, cont>>
    /\ UNCHANGED <<input, yielded, ident, state, ret, utf16_be>>

\* utf16_be.push(try_at!(..from_str_radix..)), then the look at the next byte
parse_string_push ==
    /\ pc = "parse_string_push"
    /\ LET n == from_str_radix(num_str)
           k == peek(parser)
       IN  IF ~ n.ok
           THEN Return(parser, error_at(parser, "Unicode", None))
                /\ UNCHANGED <<state, utf16_be>>
           ELSE /\ utf16_be' = Append(utf16_be, n.n)
                /\ IF k.err.tag = "Err"
                   THEN Return(k.p, k.err) /\ UNCHANGED state
                   ELSE IF k.v = b["\\"]
                   THEN /\ parser' = eat(k.p)
                        /\ pc' = "parse_string_more"
                        /\ UNCHANGED <<state, result, stack, cont>>
                   ELSE /\ state' = "Scanning"
                        /\ parser' = k.p
                        /\ pc' = "parse_string_decode"
                        /\ UNCHANGED <<result, stack, cont>>
    /\ UNCHANGED <<input, yielded, ident, ret, num_str>>

\* after a backslash that follows a \u escape: `if self.peek()? != Some(b'u')`
parse_string_more ==
    /\ pc = "parse_string_more"
    /\ LET k == peek(parser)
       IN  IF k.err.tag = "Err"
           THEN Return(k.p, k.err) /\ UNCHANGED state
           ELSE IF k.v # b["u"]
           THEN /\ state' = "Escaping"
                /\ parser' = k.p
                /\ pc' = "parse_string_decode"
                /\ UNCHANGED <<result, stack, cont>>
           ELSE /\ parser' = k.p
                /\ pc' = "parse_string_u"
                /\ UNCHANGED <<state, result, stack, cont>>
    /\ UNCHANGED <<input, yielded, ident, ret, utf16_be, num_str>>

\* the chars decode_utf16 yields before its first Err
RECURSIVE decoded_prefix(_)
decoded_prefix(rs) ==
    IF rs = <<>> \/ ~ Head(rs).ok THEN <<>>
    ELSE <<Head(rs).ch>> \o decoded_prefix(Tail(rs))

\* `for ch in char::decode_utf16(..)`, then `continue`
parse_string_decode ==
    /\ pc = "parse_string_decode"
    /\ LET rs == decode_utf16(utf16_be)
       IN  /\ ret' = ret \o decoded_prefix(rs)
           /\ IF \E i \in 1..Len(rs) : ~ rs[i].ok
              THEN Return(parser, error_at(parser, "UnpairedSurrogate", None))
              ELSE /\ pc' = "parse_string"
                   /\ UNCHANGED <<parser, result, stack, cont>>
    /\ utf16_be' = <<>>
    /\ UNCHANGED <<input, yielded, ident, state, num_str>>

\* parse_string_end that returns what was read whatever the state
parse_string_end_any_state ==
    /\ pc = "parse_string_end"
    /\ Return(parser, Ok(ret))
    /\ UNCHANGED <<input, yielded, ident, state, ret, utf16_be, num_str>>

\* the `if state == State::Done` after the loop
parse_string_end ==
    /\ pc = "parse_string_end"
    /\ IF state = "Done"
       THEN Return(parser, Ok(ret))
       ELSE Return(parser, error_at(parser, "UnexpectedEOF", None))
    /\ UNCHANGED <<input, yielded, ident, state, ret, utf16_be, num_str>>

-----------------------------------------------------------------------------
(* eat_whitespace, eat_ident and parse *)

Whitespace == {b[" "], b["\n"], b["\r"]}

\* eat_whitespace that leaves the whitespace byte buffered
eat_whitespace_no_eat ==
    /\ pc = "eat_whitespace"
    /\ LET k == peek(parser)
       IN  IF k.err.tag = "Err"
           THEN Throw(k.p, k.err)
           ELSE IF k.v \in Whitespace
           THEN /\ parser' = k.p
                /\ UNCHANGED <<pc, result, stack, cont>>
           ELSE /\ parser' = k.p
                /\ pc' = cont
                /\ UNCHANGED <<result, stack, cont>>
    /\ UNCHANGED <<input, yielded, state, ret, utf16_be, num_str, ident>>

\* one iteration of eat_whitespace's loop; the return goes on where the call
\* was made
eat_whitespace ==
    /\ pc = "eat_whitespace"
    /\ LET k == peek(parser)
       IN  IF k.err.tag = "Err"
           THEN Throw(k.p, k.err)
           ELSE IF k.v \in Whitespace
           THEN /\ parser' = eat(k.p)
                /\ UNCHANGED <<pc, result, stack, cont>>
           ELSE /\ parser' = k.p
                /\ pc' = cont
                /\ UNCHANGED <<result, stack, cont>>
    /\ UNCHANGED <<input, yielded, state, ret, utf16_be, num_str, ident>>

\* the value of the keyword arm eat_ident was called from
keyword_value(arm) ==
    IF arm = "null" THEN Null
    ELSE IF arm = "true" THEN Bool(TRUE)
    ELSE Bool(FALSE)

\* one iteration of `for c in ident.bytes()`; after the last one eat_ident
\* returns and parse returns the keyword's value
eat_ident ==
    /\ pc = "eat_ident"
    /\ LET k == peek(parser)
       IN  IF k.err.tag = "Err"
           THEN Throw(k.p, k.err) /\ UNCHANGED ident
           ELSE IF k.v # Head(ident)
           THEN Throw(k.p, error_at(k.p, "UnknownIdent", None)) /\ UNCHANGED ident
           ELSE /\ ident' = Tail(ident)
                /\ IF Tail(ident) = <<>>
                   THEN ParseReturn(eat(k.p), keyword_value(cont), stack)
                   ELSE /\ parser' = eat(k.p)
                        /\ UNCHANGED <<pc, result, stack, cont>>
    /\ UNCHANGED <<input, yielded, state, ret, utf16_be, num_str>>

\* the entry of parse: self.eat_whitespace()?
parse ==
    /\ pc = "parse"
    /\ pc' = "eat_whitespace"
    /\ cont' = "parse_first"
    /\ UNCHANGED <<input, yielded, parser, state, ret, utf16_be, num_str, ident, stack, result>>

\* the peek of first_ch and the match on it, up to the call or the loop the
\* arm starts with
parse_first ==
    /\ pc = "parse_first"
    /\ LET k == peek(parser)
           c == k.v
       IN  IF k.err.tag = "Err"
           THEN Throw(k.p, k.err) /\ UNCHANGED <<state, ret, ident>>
           ELSE IF c = None
           THEN Throw(k.p, error_at(k.p, "UnexpectedEOF", None)) /\ UNCHANGED <<state, ret, ident>>
           ELSE IF c \in {b["n"], b["t"], b["f"]}
           THEN /\ ident' = IF c = b["n"] THEN Str(<<"n", "u", "l", "l">>)
                            ELSE IF c = b["t"] THEN Str(<<"t", "r", "u", "e">>)
                            ELSE Str(<<"f", "a", "l", "s", "e">>)
                /\ cont' = IF c = b["n"] THEN "null" ELSE IF c = b["t"] THEN "true" ELSE "false"
                /\ pc' = "eat_ident"
                /\ parser' = k.p
                /\ UNCHANGED <<state, ret, stack, result>>
           ELSE IF c = b["-"] \/ IsDigit(c)
           THEN /\ pc' = "parse_number"
                /\ cont' = "number"
                /\ state' = "Start"
                /\ ret' = <<>>
                /\ parser' = k.p
                /\ UNCHANGED <<ident, stack, result>>
           ELSE IF c = b["\""] \/ c = b["'"]
           THEN /\ pc' = "parse_string"
                /\ cont' = "string"
                /\ state' = "Start"
                /\ ret' = <<>>
                /\ parser' = k.p
                /\ UNCHANGED <<ident, stack, result>>
           ELSE IF c = b["["]
           THEN /\ parser' = eat(k.p)
                /\ stack' = Append(stack, Frame("array"))
                /\ pc' = "eat_whitespace"
                /\ cont' = "array_first"
                /\ UNCHANGED <<state, ret, ident, result>>
           ELSE IF c = b["{"]
           THEN /\ parser' = eat(k.p)
                /\ stack' = Append(stack, Frame("object"))
                /\ pc' = "eat_whitespace"
                /\ cont' = "object_first"
                /\ UNCHANGED <<state, ret, ident, result>>
           ELSE Throw(k.p, error_at(k.p, "UnknownIdent", None)) /\ UNCHANGED <<state, ret, ident>>
    /\ UNCHANGED <<input, yielded, utf16_be, num_str>>

\* array_first that takes a ']' in place of an element after a comma too
array_first_after_comma ==
    /\ pc = "array_first"
    /\ LET k == peek_noeof(parser)
       IN  IF k.err.tag = "Err"
           THEN /\ parser' = k.p
                /\ result' = k.err
                /\ pc' = "done"
           ELSE /\ parser' = k.p
                /\ pc' = IF k.v = b["]"] THEN "array_sep" ELSE "parse"
                /\ UNCHANGED result
    /\ UNCHANGED <<input, yielded, state, ret, utf16_be, num_str, ident, stack, cont>>

\* the array loop after its first eat_whitespace: a ']' seen while ret is
\* empty skips the element; otherwise parse is called for it
array_first ==
    /\ pc = "array_first"
    /\ LET top == stack[Len(stack)]
           k == peek_noeof(parser)
       IN  IF top.ret # <<>>
           THEN /\ pc' = "parse"
                /\ UNCHANGED <<parser, result>>
           ELSE IF k.err.tag = "Err"
           THEN /\ parser' = k.p
                /\ result' = k.err
                /\ pc' = "done"
           ELSE /\ parser' = k.p
                /\ pc' = IF k.v = b["]"] THEN "array_sep" ELSE "parse"
                /\ UNCHANGED result
    /\ UNCHANGED <<input, yielded, state, ret, utf16_be, num_str, ident, stack, cont>>

\* the match on the byte after an element: ',' goes round the loop, ']' ends
\* the array, which parse returns
array_sep ==
    /\ pc = "array_sep"
    /\ LET k == peek_noeof(parser)
       IN  IF k.err.tag = "Err"
           THEN Throw(k.p, k.err)
           ELSE IF k.v = b[","]
           THEN /\ parser' = eat(k.p)
                /\ pc' = "eat_whitespace"
                /\ cont' = "array_first"
                /\ UNCHANGED <<stack, result>>
           ELSE IF k.v = b["]"]
           THEN ParseReturn(eat(k.p), Array(stack[Len(stack)].ret),
                            SubSeq(stack, 1, Len(stack) - 1))
           ELSE Throw(k.p, error_at(k.p, "UnknownIdent", None))
    /\ UNCHANGED <<input, yielded, state, ret, utf16_be, num_str, ident>>

\* the object loop after its first eat_whitespace: a '}' seen while ret is
\* empty ends the object; otherwise parse_string is called for the key
object_first ==
    /\ pc = "object_first"
    /\ LET top == stack[Len(stack)]
           k == peek_noeof(parser)
           key == /\ pc' = "parse_string"
                  /\ cont' = "key"
                  /\ state' = "Start"
                  /\ ret' = <<>>
       IN  IF top.ret # <<>>
           THEN key /\ UNCHANGED <<parser, stack, result>>
           ELSE IF k.err.tag = "Err"
           THEN Throw(k.p, k.err) /\ UNCHANGED <<state, ret>>
           ELSE IF k.v = b["}"]
           THEN ParseReturn(eat(k.p), Object(top.keys, top.ret),
                            SubSeq(stack, 1, Len(stack) - 1))
                /\ UNCHANGED <<state, ret>>
           ELSE key /\ parser' = k.p /\ UNCHANGED <<stack, result>>
    /\ UNCHANGED <<input, yielded, utf16_be, num_str, ident>>

\* object_colon that fails the way the array arm does, without the byte
object_colon_unknown_ident ==
    /\ pc = "object_colon"
    /\ LET k == peek_noeof(parser)
       IN  IF k.err.tag = "Err"
           THEN Throw(k.p, k.err)
           ELSE IF k.v = b[":"]
           THEN /\ parser' = eat(k.p)
                /\ pc' = "eat_whitespace"
                /\ cont' = "parse"
                /\ UNCHANGED <<stack, result>>
           ELSE Throw(k.p, error_at(k.p, "UnknownIdent", None))
    /\ UNCHANGED <<input, yielded, state, ret, utf16_be, num_str, ident>>

\* the ':' after the key, and the eat_whitespace before the value's parse
object_colon ==
    /\ pc = "object_colon"
    /\ LET k == peek_noeof(parser)
       IN  IF k.err.tag = "Err"
           THEN Throw(k.p, k.err)
           ELSE IF k.v = b[":"]
           THEN /\ parser' = eat(k.p)
                /\ pc' = "eat_whitespace"
                /\ cont' = "parse"
                /\ UNCHANGED <<stack, result>>
           ELSE Throw(k.p, error_at(k.p, "UnexpectedCharacter", k.v))
    /\ UNCHANGED <<input, yielded, state, ret, utf16_be, num_str, ident>>

\* the match on the byte after an entry: ',' goes round the loop, '}' ends the
\* object, which parse returns
object_sep ==
    /\ pc = "object_sep"
    /\ LET k == peek_noeof(parser)
       IN  IF k.err.tag = "Err"
           THEN Throw(k.p, k.err)
           ELSE IF k.v = b[","]
           THEN /\ parser' = eat(k.p)
                /\ pc' = "eat_whitespace"
                /\ cont' = "object_first"
                /\ UNCHANGED <<stack, result>>
           ELSE IF k.v = b["}"]
           THEN ParseReturn(eat(k.p), Object(stack[Len(stack)].keys, stack[Len(stack)].ret),
                            SubSeq(stack, 1, Len(stack) - 1))
           ELSE Throw(k.p, error_at(k.p, "UnexpectedCharacter", k.v))
    /\ UNCHANGED <<input, yielded, state, ret, utf16_be, num_str, ident>>

-----------------------------------------------------------------------------
(* The number lexer on its own: parse_number called on a new Parser *)

SeqsUpTo(S, n) == UNION {[1..k -> S] : k \in 0..n}

NumberBytes ==
    {b["-"], b["+"], b["0"], b["1"], b["5"], b["."], b["e"], b["E"], b[","], b["x"]}

InitNumber ==
    /\ input \in SeqsUpTo(NumberBytes, MaxNumLen)
    /\ parser = new(input)
    /\ pc = "parse_number"
    /\ state = "Start"
    /\ ret = <<>>
    /\ utf16_be = <<>>
    /\ num_str = <<>>
    /\ ident = <<>>
    /\ yielded = <<>>
    /\ stack = <<>>
    /\ cont = "top"
    /\ result = NoResult

NextNumber == parse_number_loop \/ parse_number_end

SpecNumber == InitNumber /\ [][NextNumber]_vars

-----------------------------------------------------------------------------
(* The string lexer on its own: parse_string called on a new Parser.  A     *)
(* source is a run of pieces: single bytes, two-byte escapes, \u escapes    *)
(* and parts of them.                                                       *)

RECURSIVE Flatten(_)
Flatten(ps) == IF ps = <<>> THEN <<>> ELSE Head(ps) \o Flatten(Tail(ps))

StringPieces ==
    { Str(<<"\"">>), Str(<<"\\">>), Str(<<"x">>), Str(<<"\n">>),
      Str(<<"\\", "n">>), Str(<<"\\", "r">>), Str(<<"\\", "t">>),
      Str(<<"\\", "b">>), Str(<<"\\", "f">>), Str(<<"\\", "/">>),
      Str(<<"\\", "u", "0", "0", "A", "1">>), Str(<<"\\", "u", "f", "f", "f", "f">>),
      Str(<<"\\", "u", "d", "8", "3", "4">>), Str(<<"\\", "u", "D", "D", "1", "E">>),
      Str(<<"\\", "u">>), Str(<<"+", "f", "f", "f">>), Str(<<"f", "+", "f", "f">>) }

StringInputs ==
    {Flatten(ps) : ps \in SeqsUpTo(StringPieces, MaxBarePieces)}
        \cup {Str(<<"\"">>) \o Flatten(ps) \o end :
                  ps \in SeqsUpTo(StringPieces, MaxStrPieces), end \in {<<>>, Str(<<"\"">>)}}

InitString ==
    /\ input \in StringInputs
    /\ parser = new(input)
    /\ pc = "parse_string"
    /\ state = "Start"
    /\ ret = <<>>
    /\ utf16_be = <<>>
    /\ num_str = <<>>
    /\ ident = <<>>
    /\ yielded = <<>>
    /\ stack = <<>>
    /\ cont = "top"
    /\ result = NoResult

NextString ==
    \/ parse_string_loop
    \/ parse_string_u
    \/ parse_string_hex
    \/ parse_string_push
    \/ parse_string_more
    \/ parse_string_decode
    \/ parse_string_end

SpecString == InitString /\ [][NextString]_vars

-----------------------------------------------------------------------------
(* parse on a bare identifier: a source of whitespace, keywords and letters *)

KeywordPieces ==
    { Str(<<" ">>), Str(<<"\n">>), Str(<<"\r">>),
      Str(<<"n", "u", "l", "l">>), Str(<<"t", "r", "u", "e">>),
      Str(<<"f", "a", "l", "s", "e">>),
      Str(<<"n", "u", "l">>), Str(<<"t", "r", "u">>), Str(<<"f", "a", "l", "s">>),
      Str(<<"x">>) }

InitParse(inputs) ==
    /\ input \in inputs
    /\ parser = new(input)
    /\ pc = "parse"
    /\ state = "Start"
    /\ ret = <<>>
    /\ utf16_be = <<>>
    /\ num_str = <<>>
    /\ ident = <<>>
    /\ yielded = <<>>
    /\ stack = <<>>
    /\ cont = "top"
    /\ result = NoResult

InitKeyword == InitParse({Flatten(ps) : ps \in SeqsUpTo(KeywordPieces, MaxKeywordPieces)})

NextKeyword == parse \/ eat_whitespace \/ parse_first \/ eat_ident

SpecKeyword == InitKeyword /\ [][NextKeyword]_vars

-----------------------------------------------------------------------------
(* parse on a whole document: a source of punctuation, whitespace and values *)

DocPieces ==
    { Str(<<"[">>), Str(<<"]">>), Str(<<"{">>), Str(<<"}">>), Str(<<",">>), Str(<<":">>),
      Str(<<" ">>), Str(<<"n", "u", "l", "l">>), Str(<<"1">>),
      Str(<<"\"", "a", "\"">>), Str(<<"\"", "a", "\"", ":", "1">>),
      Str(<<"\"", "\\", "u", "0", "0", "A", "1", "\\", "u", "0", "0", "A", "1", "\"">>) }

Init == InitParse({Flatten(ps) : ps \in SeqsUpTo(DocPieces, MaxDocPieces)})

Next ==
    \/ parse
    \/ eat_whitespace
    \/ parse_first
    \/ eat_ident
    \/ parse_number_loop
    \/ parse_number_end
    \/ parse_string_loop
    \/ parse_string_u
    \/ parse_string_hex
    \/ parse_string_push
    \/ parse_string_more
    \/ parse_string_decode
    \/ parse_string_end
    \/ array_first
    \/ array_sep
    \/ object_first
    \/ object_colon
    \/ object_sep

Spec == Init /\ [][Next]_vars

-----------------------------------------------------------------------------
(* parse on a well-formed array or object *)

\* the texts of the values an array or an entry is made of
Elements ==
    { Str(<<"1">>), Str(<<"n", "u", "l", "l">>), Str(<<"\"", "a", "\"">>),
      Str(<<"[", "]">>), Str(<<"[", "1", "]">>), Str(<<"[", "1", ",", "n", "u", "l", "l", "]">>),
      Str(<<"[", "[", "1", "]", ",", "1", "]">>),
      Str(<<"{", "\"", "a", "\"", ":", "1", "}">>) }

\* the texts of the keys
Keys == { Str(<<"\"", "a", "\"">>), Str(<<"\"", "b", "\"">>) }

\* the whitespace put around every bracket, comma and colon
Gaps == { <<>>, Str(<<" ">>) }

\* the texts ts in a row with sep between them
RECURSIVE Join(_, _)
Join(ts, sep) ==
    IF ts = <<>> THEN <<>>
    ELSE IF Len(ts) = 1 THEN ts[1]
    ELSE ts[1] \o sep \o Join(Tail(ts), sep)

ArrayText(ts, gap) ==
    Str(<<"[">>) \o gap \o Join(ts, gap \o Str(<<",">>) \o gap) \o gap \o Str(<<"]">>)

ObjectText(ps, gap) ==
    Str(<<"{">>) \o gap
        \o Join([i \in 1..Len(ps) |-> ps[i][1] \o gap \o Str(<<":">>) \o gap \o ps[i][2]],
                gap \o Str(<<",">>) \o gap)
        \o gap \o Str(<<"}">>)

TreeInputs ==
    {ArrayText(ts, gap) : ts \in SeqsUpTo(Elements, MaxElems), gap \in Gaps}
        \cup {ObjectText(ps, gap) : ps \in SeqsUpTo(Keys \X Elements, MaxPairs), gap \in Gaps}

InitTree == InitParse(TreeInputs)

NextTree ==
    \/ parse
    \/ eat_whitespace
    \/ parse_first
    \/ eat_ident
    \/ parse_number_loop
    \/ parse_number_end
    \/ parse_string_loop
    \/ parse_string_end
    \/ array_first
    \/ array_sep
    \/ object_first
    \/ object_colon
    \/ object_sep

SpecTree == InitTree /\ [][NextTree]_vars

-----------------------------------------------------------------------------
(* parse on a source that fails: a document with one Err item put in *)

IoPieces ==
    { Str(<<"[", "1", ",">>), Str(<<"{", "\"", "a", "\"", ":">>), Str(<<"n", "u", "l", "l">>),
      Str(<<"\"", "\\", "u", "0", "0", "A", "1", "\\", "u", "f", "f", "f", "f", "\"">>),
      Str(<<"]">>), Str(<<"}">>), Str(<<",">>), Str(<<"\n">>) }

\* the items of t with an Err(io::Error) item after the first i of them
FailingAt(t, i) == SubSeq(t, 1, i) \o <<IoErr>> \o SubSeq(t, i + 1, Len(t))

IoInputs ==
    LET docs == {Flatten(ps) : ps \in SeqsUpTo(IoPieces, MaxIoPieces)}
    IN  docs \cup UNION {{FailingAt(t, i) : i \in 0..Len(t)} : t \in docs}

InitIo == InitParse(IoInputs)

SpecIo == InitIo /\ [][Next]_vars

-----------------------------------------------------------------------------
(* The cursor on its own: peek, peek_noeof and eat called in any order *)

\* what a call of peek or peek_noeof returned: the error, or Ok with the byte
\* (no byte for Ok(None))
Peeked(k) ==
    IF k.err.tag = "Err" THEN k.err
    ELSE Ok(IF k.v = None THEN <<>> ELSE <<k.v>>)

cursor_peek ==
    /\ pc = "cursor"
    /\ parser' = peek(parser).p
    /\ result' = Peeked(peek(parser))
    /\ UNCHANGED <<input, yielded, pc, state, ret, utf16_be, num_str, ident, stack, cont>>

cursor_peek_noeof ==
    /\ pc = "cursor"
    /\ parser' = peek_noeof(parser).p
    /\ result' = Peeked(peek_noeof(parser))
    /\ UNCHANGED <<input, yielded, pc, state, ret, utf16_be, num_str, ident, stack, cont>>

cursor_eat ==
    /\ pc = "cursor"
    /\ parser' = eat(parser)
    /\ UNCHANGED <<input, yielded, pc, state, ret, utf16_be, num_str, ident, stack, cont, result>>

CursorItems == {b["x"], b["\n"], IoErr}

InitCursor ==
    /\ input \in SeqsUpTo(CursorItems, MaxCursorLen)
    /\ parser = new(input)
    /\ pc = "cursor"
    /\ state = "Start"
    /\ ret = <<>>
    /\ utf16_be = <<>>
    /\ num_str = <<>>
    /\ ident = <<>>
    /\ yielded = <<>>
    /\ stack = <<>>
    /\ cont = "top"
    /\ result = NoResult

NextCursor == cursor_peek \/ cursor_peek_noeof \/ cursor_eat

SpecCursor == InitCursor /\ [][NextCursor]_vars

-----------------------------------------------------------------------------
(* parse on a number followed by one of the bytes parse_number stops at,    *)
(* at the top level, in an array and in an object                           *)

\* what comes before the number
TermBefore ==
    { <<>>, Str(<<"[">>), Str(<<"[", "n", "u", "l", "l", ",">>),
      Str(<<"{", "\"", "a", "\"", ":">>) }

\* the bytes the number is made of
TermNumberBytes == {b["-"], b["1"], b["."]}

\* what comes after the byte parse_number stopped at
TermAfter ==
    { <<>>, Str(<<"1">>), Str(<<"]">>), Str(<<"}">>), Str(<<",", "n", "u", "l", "l">>) }

TermInputs ==
    { pre \o num \o <<t>> \o post :
        pre \in TermBefore, num \in SeqsUpTo(TermNumberBytes, MaxTermLen),
        t \in NumberTerminators, post \in TermAfter }

InitTerm == InitParse(TermInputs)

SpecTerm == InitTerm /\ [][NextTree]_vars

-----------------------------------------------------------------------------
(* parse on a value that starts with an apostrophe, at the top level or in  *)
(* arrays, after whitespace, with any bytes after it                        *)

\* what comes before the apostrophe: whitespace and the '[' of an array
AposLead == {b[" "], b["\n"], b["["]}

\* the bytes after the apostrophe
AposTail == {b["x"], b["'"], b["\""], b["\\"], b["]"]}

AposInputs ==
    { lead \o <<b["'"]>> \o tail :
        lead \in SeqsUpTo(AposLead, MaxAposLead), tail \in SeqsUpTo(AposTail, MaxAposTail) }

InitApos == InitParse(AposInputs)

NextApos == parse \/ eat_whitespace \/ parse_first \/ array_first \/ parse_string_loop

SpecApos == InitApos /\ [][NextApos]_vars

-----------------------------------------------------------------------------
(* parse run to its end on sources of brackets, separators, whitespace,     *)
(* numbers, keyed entries and failing items, well-formed or not             *)

HaltPieces ==
    { Str(<<"[">>), Str(<<"]">>), Str(<<"{", "\"", "a", "\"", ":">>), Str(<<"}">>),
      Str(<<",">>), Str(<<"1">>), Str(<<" ">>), <<IoErr>> }

InitHalt == InitParse({Flatten(ps) : ps \in SeqsUpTo(HaltPieces, MaxHaltPieces)})

NextHalt ==
    \/ parse
    \/ eat_whitespace
    \/ parse_first
    \/ parse_number_loop
    \/ parse_number_end
    \/ parse_string_loop
    \/ parse_string_end
    \/ array_first
    \/ array_sep
    \/ object_first
    \/ object_colon
    \/ object_sep

\* every step of parse is a step of the one thread that called it, so a call
\* that can take a step does take it
FairSpecHalt == InitHalt /\ [][NextHalt]_vars /\ WF_vars(NextHalt)

-----------------------------------------------------------------------------
(* The Parser as an Iterator: next called again and again on a new Parser,  *)
(* up to the first None                                                     *)

\* one call of Iterator::next by the caller, who keeps the item it got
cursor_next ==
    /\ pc = "next"
    /\ parser' = next(parser).p
    /\ IF next(parser).r = None
       THEN pc' = "done" /\ UNCHANGED yielded
       ELSE yielded' = Append(yielded, next(parser).r) /\ UNCHANGED pc
    /\ UNCHANGED <<input, state, ret, utf16_be, num_str, ident, stack, cont, result>>

InitNext ==
    /\ input \in SeqsUpTo(CursorItems, MaxNextLen)
    /\ parser = new(input)
    /\ pc = "next"
    /\ state = "Start"
    /\ ret = <<>>
    /\ utf16_be = <<>>
    /\ num_str = <<>>
    /\ ident = <<>>
    /\ yielded = <<>>
    /\ stack = <<>>
    /\ cont = "top"
    /\ result = NoResult

NextNext == cursor_next

SpecNext == InitNext /\ [][NextNext]_vars

-----------------------------------------------------------------------------
(* The JSON number grammar: an optional '-', an integer part that is 0 or  *)
(* starts with 1..9, an optional '.' and digits, an optional e/E with an   *)
(* optional sign and digits.                                               *)

AllDigits(w, from, to) == \A x \in from..to : IsDigit(w[x])

\* w = sign int frac exp, with the sign ending at i, the integer part at j and
\* the fraction at k
IsJsonNumber(w) ==
    LET n == Len(w)
    IN  \E i \in 0..1 : \E j \in (i+1)..n : \E k \in j..n :
           /\ i = 1 => w[1] = b["-"]
           /\ AllDigits(w, i+1, j)
           /\ j > i+1 => w[i+1] # b["0"]
           /\ \/ k = j
              \/ k >= j+2 /\ w[j+1] = b["."] /\ AllDigits(w, j+2, k)
           /\ \/ k = n
              \/ /\ w[k+1] \in {b["e"], b["E"]}
                 /\ LET m == IF k+2 <= n /\ w[k+2] \in {b["+"], b["-"]} THEN k+2 ELSE k+1
                    IN  m < n /\ AllDigits(w, m+1, n)

\* the source holds the number w and then ends or goes on with a terminator
NumberThenEnd(n) ==
    /\ IsJsonNumber(SubSeq(input, 1, n))
    /\ n = Len(input) \/ input[n+1] \in NumberTerminators

-----------------------------------------------------------------------------
(* Claims about parse_number, under SpecNumber *)

\* C1: a source that holds a byte string of the JSON number grammar followed
\* by end of input or by a terminator byte makes parse_number return exactly
\* that byte string.
C1_GrammarNumberReturnedUnchanged ==
    pc = "done" =>
        \A n \in 0..Len(input) : NumberThenEnd(n) => result = Ok(SubSeq(input, 1, n))

\* a signed number with an upper-case exponent, stopped by a comma, was returned
C1_Witness ==
    /\ pc = "done"
    /\ input = Str(<<"-", "1", "E", "5", ",">>) \/ input = Str(<<"0", ".", "5", ",">>)
    /\ result.tag = "Ok"
    /\ parser.peek = b[","]

\* C2: every text parse_number returns matches the JSON number grammar.
C2_ReturnedTextMatchesGrammar ==
    pc = "done" /\ result.tag = "Ok" => IsJsonNumber(result.text)

\* C3: a '+' or '-' that is neither a '-' opening the number nor the sign right
\* after the 'e'/'E' byte fails with UnexpectedCharacter carrying that byte.
C3_SignOnlyFirstOrAfterExponentMarker ==
    [][ LET k == peek(parser)
        IN  (/\ pc = "parse_number"
             /\ k.err.tag # "Err"
             /\ k.v \in {b["+"], b["-"]}
             /\ ~ (k.v = b["-"] /\ ret = <<>>)
             /\ ~ (ret # <<>> /\ ret[Len(ret)] \in {b["e"], b["E"]}))
            => /\ pc' = "done"
               /\ result'.tag = "Err"
               /\ result'.kind = "UnexpectedCharacter"
               /\ result'.ch = k.v ]_vars

\* the integer part of w starts with '0' followed by another digit
LeadingZero(w) ==
    \E i \in 0..1 :
        /\ Len(w) >= i + 2
        /\ i = 1 => w[1] = b["-"]
        /\ w[i+1] = b["0"]
        /\ IsDigit(w[i+2])

\* C4: an integer part starting with '0' followed by another digit fails with
\* MalformedNumber; "0", "-0" and "0.5" are returned unchanged.
C4_LeadingZeroRejected ==
    pc = "done" =>
        /\ LeadingZero(input) => result.tag = "Err" /\ result.kind = "MalformedNumber"
        /\ input \in {Str(<<"0">>), Str(<<"-", "0">>), Str(<<"0", ".", "5">>)}
               => result = Ok(input)

\* "-01" was rejected at its second digit
C4_Witness ==
    /\ pc = "done"
    /\ input = Str(<<"-", "0", "1">>)
    /\ result.kind = "MalformedNumber"
    /\ parser.peek = b["1"]

\* C5: '.' is accepted only in PreDecimal or ZeroStart and 'e'/'E' only in
\* ZeroStart, PreDecimal or PostDecimal; in every other state the byte fails
\* with MalformedNumber, and so does ending the token while in Start.
C5_DotAndExponentByState ==
    [][ LET k == peek(parser)
            accepted == /\ pc' = "parse_number"
                        /\ ret' = Append(ret, k.v)
                        /\ result' = NoResult
            malformed == /\ pc' = "done"
                         /\ result'.tag = "Err"
                         /\ result'.kind = "MalformedNumber"
        IN  /\ (pc = "parse_number" /\ k.v = b["."]) =>
                IF state \in {"PreDecimal", "ZeroStart"} THEN accepted ELSE malformed
            /\ (pc = "parse_number" /\ k.v \in {b["e"], b["E"]}) =>
                IF state \in {"ZeroStart", "PreDecimal", "PostDecimal"}
                THEN accepted ELSE malformed
            /\ (pc = "parse_number_end" /\ state = "Start") => malformed ]_vars

\* a second '.' was rejected after the decimal point
C5_Witness ==
    /\ pc = "done"
    /\ state = "PostDecimal"
    /\ parser.peek = b["."]
    /\ result.kind = "MalformedNumber"

-----------------------------------------------------------------------------
(* Keywords and bare identifiers *)

IsLetter(c) == c \in 65..90 \/ c \in 97..122

\* w without its leading and trailing whitespace
RECURSIVE TrimLeft(_)
TrimLeft(w) ==
    IF w # <<>> /\ Head(w) \in {b[" "], b["\n"], b["\r"]} THEN TrimLeft(Tail(w)) ELSE w

RECURSIVE TrimRight(_)
TrimRight(w) ==
    IF w # <<>> /\ w[Len(w)] \in {b[" "], b["\n"], b["\r"]}
    THEN TrimRight(SubSeq(w, 1, Len(w) - 1))
    ELSE w

Trim(w) == TrimRight(TrimLeft(w))

(* C6: a source that is "null", "true" or "false", optionally surrounded by
   whitespace (space, LF, CR), parses to Null, Bool(true) and Bool(false)
   respectively; every other bare identifier (whitespace, then any other byte
   sequence starting with a letter, a strict prefix or an extension of a
   keyword included) fails with UnknownIdent. *)
C6_KeywordsAndOnlyKeywords ==
    pc = "done" =>
        LET w == Trim(input)
        IN  /\ w = Str(<<"n", "u", "l", "l">>) => result = OkJson(Null)
            /\ w = Str(<<"t", "r", "u", "e">>) => result = OkJson(Bool(TRUE))
            /\ w = Str(<<"f", "a", "l", "s", "e">>) => result = OkJson(Bool(FALSE))
            /\ ( /\ w # <<>>
                 /\ IsLetter(w[1])
                 /\ w \notin { Str(<<"n", "u", "l", "l">>), Str(<<"t", "r", "u", "e">>),
                               Str(<<"f", "a", "l", "s", "e">>) } )
               => result.tag = "Err" /\ result.kind = "UnknownIdent"

-----------------------------------------------------------------------------
(* What a string literal stands for: the text between the quotes with each  *)
(* two-byte escape replaced by its character and each run of \uXXXX         *)
(* escapes read as UTF-16.                                                  *)

EscapedChar ==
    (b["n"] :> 10) @@ (b["r"] :> 13) @@ (b["t"] :> 9) @@ (b["b"] :> 7) @@ (b["f"] :> 12) @@
    (b["/"] :> 47) @@ (b["\\"] :> 92) @@ (b["\""] :> 34)

IsHex(c) == c \in (48..57) \cup (65..70) \cup (97..102)

HexValue(c) == IF c <= 57 THEN c - 48 ELSE IF c <= 70 THEN c - 55 ELSE c - 87

IsHigh(u) == u \in 55296..56319

IsLow(u) == u \in 56320..57343

\* the code units of the \uXXXX escapes that stand in a row from w[i] on
RECURSIVE EscapeRun(_, _, _)
EscapeRun(w, i, units) ==
    IF i + 1 <= Len(w) /\ w[i] = b["\\"] /\ w[i+1] = b["u"]
    THEN IF i + 5 <= Len(w) /\ \A j \in (i+2)..(i+5) : IsHex(w[j])
         THEN EscapeRun(w, i + 6,
                  Append(units, HexValue(w[i+2]) * 4096 + HexValue(w[i+3]) * 256
                                    + HexValue(w[i+4]) * 16 + HexValue(w[i+5])))
         ELSE [ok |-> FALSE, units |-> units, next |-> i]
    ELSE [ok |-> TRUE, units |-> units, next |-> i]

\* a surrogate of the run has no partner next to it
HasUnpaired(units) ==
    \E i \in 1..Len(units) :
        \/ IsHigh(units[i]) /\ (i = Len(units) \/ ~ IsLow(units[i+1]))
        \/ IsLow(units[i]) /\ (i = 1 \/ ~ IsHigh(units[i-1]))

\* the scalars of a run in which every surrogate is paired
RECURSIVE Scalars(_)
Scalars(units) ==
    IF units = <<>> THEN <<>>
    ELSE IF IsHigh(units[1])
    THEN <<65536 + (units[1] - 55296) * 1024 + (units[2] - 56320)>>
             \o Scalars(SubSeq(units, 3, Len(units)))
    ELSE <<units[1]>> \o Scalars(Tail(units))

\* the literal read from w[i] on, after the opening quote: "Ok" with its text,
\* "Unpaired" at the first run with an unpaired surrogate, "Other" when the
\* literal is cut short or holds an escape that is none of the above; u tells
\* whether a \u escape was read
RECURSIVE Literal(_, _, _, _)
Literal(w, i, out, u) ==
    IF i > Len(w) THEN [tag |-> "Other", text |-> out, u |-> u]
    ELSE IF w[i] = b["\""] THEN [tag |-> "Ok", text |-> out, u |-> u]
    ELSE IF w[i] # b["\\"] THEN Literal(w, i + 1, Append(out, w[i]), u)
    ELSE IF i + 1 > Len(w) THEN [tag |-> "Other", text |-> out, u |-> u]
    ELSE IF w[i+1] \in DOMAIN EscapedChar
    THEN Literal(w, i + 2, Append(out, EscapedChar[w[i+1]]), u)
    ELSE IF w[i+1] = b["u"]
    THEN LET run == EscapeRun(w, i, <<>>)
         IN  IF ~ run.ok THEN [tag |-> "Other", text |-> out, u |-> TRUE]
             ELSE IF HasUnpaired(run.units) THEN [tag |-> "Unpaired", text |-> out, u |-> TRUE]
             ELSE Literal(w, run.next, out \o Scalars(run.units), TRUE)
    ELSE [tag |-> "Other", text |-> out, u |-> u]

StringLiteral(w) ==
    IF w = <<>> \/ w[1] # b["\""] THEN [tag |-> "Other", text |-> <<>>, u |-> FALSE]
    ELSE Literal(w, 2, <<>>, FALSE)

-----------------------------------------------------------------------------
(* Claims about parse_string, under SpecString *)

\* C7: in a string, \n \r \t \b \f \/ \\ \" each decode to one character (LF,
\* CR, TAB, 0x07, 0x0C, '/', backslash, double quote), the lexer goes on
\* scanning after each, and the unescaped bytes between them are emitted in
\* order.
C7_TwoByteEscapesDecoded ==
    pc = "done" =>
        /\ LET lit == StringLiteral(input)
           IN  lit.tag = "Ok" /\ ~ lit.u => result = Ok(lit.text)
        /\ input = Str(<<"\"", "\\", "b", "x", "\\", "f", "\"">>) => result = Ok(<<7, 120, 12>>)
        /\ input = Str(<<"\"", "\\", "\"", "x", "\"">>) => result = Ok(<<34, 120>>)

\* the literal "\bx\f" was returned as 0x07, 'x', 0x0C
C7_Witness ==
    /\ pc = "done"
    /\ input = Str(<<"\"", "\\", "b", "x", "\\", "f", "\"">>)
    /\ result = Ok(<<7, 120, 12>>)

\* C8 as stated: in Escaping, every byte other than b, f, n, r, t, / and u
\* fails with MalformedEscape.
C8_OnlySevenEscapeBytes ==
    [][ LET k == peek(parser)
        IN  (/\ pc = "parse_string"
             /\ state = "Escaping"
             /\ k.v # None
             /\ k.v \notin {b["b"], b["f"], b["n"], b["r"], b["t"], b["/"], b["u"]})
            => /\ pc' = "done"
               /\ result'.tag = "Err"
               /\ result'.kind = "MalformedEscape" ]_vars

\* C8 as amended: in Escaping, the bytes b, f, n, r, t, /, u, '"' and the
\* backslash select an escape; any other byte fails with MalformedEscape.
C8_EscapeBytes ==
    [][ LET k == peek(parser)
        IN  (pc = "parse_string" /\ state = "Escaping" /\ k.v # None)
            => IF k.v \in {b["b"], b["f"], b["n"], b["r"], b["t"], b["/"], b["u"],
                           b["\""], b["\\"]}
               THEN result' = NoResult /\ pc' # "done"
               ELSE /\ pc' = "done"
                    /\ result'.tag = "Err"
                    /\ result'.kind = "MalformedEscape" ]_vars

\* the byte 'x' after a backslash was rejected
C8_Witness ==
    /\ pc = "done"
    /\ state = "Escaping"
    /\ parser.peek = b["x"]
    /\ result.kind = "MalformedEscape"

\* C9: a run of \uXXXX escapes is decoded as UTF-16 (a unit that is no
\* surrogate is its scalar, a high surrogate with the low surrogate after it is
\* one scalar), and an escape other than \u right after the run is decoded.
C9_UnicodeRunDecoded ==
    pc = "done" =>
        /\ LET lit == StringLiteral(input)
           IN  lit.tag = "Ok" /\ lit.u => result = Ok(lit.text)
        /\ input = Str(<<"\"", "\\", "u", "d", "8", "3", "4", "\\", "u", "D", "D", "1", "E", "\"">>)
               => result = Ok(<<119070>>)
        /\ input = Str(<<"\"", "\\", "u", "f", "f", "f", "f", "\\", "t", "\"">>)
               => result = Ok(<<65535, 9>>)

\* the pair \ud834\uDD1E was returned as the one scalar U+1D11E
C9_Witness ==
    /\ pc = "done"
    /\ input = Str(<<"\"", "\\", "u", "d", "8", "3", "4", "\\", "u", "D", "D", "1", "E", "\"">>)
    /\ result = Ok(<<119070>>)

-----------------------------------------------------------------------------
(* Claims about the failures of parse_string, under SpecString *)

\* C11: each \u escape reads exactly the next four bytes and goes on only if
\* all four are hexadecimal digits (0-9, a-f, A-F); with a byte among them that
\* is no such digit, or with the input ending before the fourth, the lexer
\* fails.
C11_FourHexDigits ==
    [][ /\ pc = "parse_string_push"
            => /\ Len(num_str) = 4
               /\ (\E i \in 1..4 : ~ IsHex(num_str[i]))
                      => pc' = "done" /\ result'.tag = "Err"
        /\ (pc = "parse_string_hex" /\ parser.peek = None /\ parser.iter = <<>>)
            => pc' = "done" /\ result'.tag = "Err" ]_vars

\* how a literal w[i..] still being read relates to the end of w: "Eof" when
\* w ends with the literal still open and nothing wrong so far (also right
\* after a backslash or inside a \uXXXX group), "EofUnpaired" when it does so
\* right after a run of \uXXXX escapes, or one backslash after it, and the run
\* holds an unpaired surrogate, "No" otherwise
RECURSIVE CutShort(_, _)
CutShort(w, i) ==
    IF i > Len(w) THEN "Eof"
    ELSE IF w[i] = b["\""] THEN "No"
    ELSE IF w[i] # b["\\"] THEN CutShort(w, i + 1)
    ELSE IF i + 1 > Len(w) THEN "Eof"
    ELSE IF w[i+1] \in DOMAIN EscapedChar THEN CutShort(w, i + 2)
    ELSE IF w[i+1] = b["u"]
    THEN LET run == EscapeRun(w, i, <<>>)
             rest == SubSeq(w, run.next, Len(w))
         IN  IF ~ run.ok
             THEN IF run.next + 5 > Len(w) THEN "Eof" ELSE "No"
             ELSE IF HasUnpaired(run.units)
             THEN IF rest = <<>> \/ rest = Str(<<"\\">>) THEN "EofUnpaired" ELSE "No"
             ELSE CutShort(w, run.next)
    ELSE "No"

\* the same for a whole source handed to parse_string
EndOfInput(w) ==
    IF w = <<>> THEN "Eof"
    ELSE IF w[1] # b["\""] THEN "No"
    ELSE CutShort(w, 2)

-----------------------------------------------------------------------------
(* Claims about arrays and objects, under Spec *)

\* the bytes of the source that the finished call has eaten
Consumed ==
    SubSeq(input, 1, Len(input) - Len(parser.iter) - (IF parser.peek # None THEN 1 ELSE 0))

\* the index of the first '"' of w from i on, or 0
RECURSIVE NextQuote(_, _)
NextQuote(w, i) ==
    IF i > Len(w) THEN 0 ELSE IF w[i] = b["\""] THEN i ELSE NextQuote(w, i + 1)

\* the index after the digits of w that stand in a row from i on
RECURSIVE AfterDigits(_, _)
AfterDigits(w, i) ==
    IF i <= Len(w) /\ w[i] \in 48..57 THEN AfterDigits(w, i + 1) ELSE i

\* the tokens of w from i on: each punctuation byte as itself, "v" for a
\* number, a string without an escaped quote or null, "?" where w is none of
\* these
RECURSIVE Tokens(_, _)
Tokens(w, i) ==
    IF i > Len(w) THEN <<>>
    ELSE IF w[i] \in {b[" "], b["\n"], b["\r"]} THEN Tokens(w, i + 1)
    ELSE IF w[i] = b["["] THEN <<"[">> \o Tokens(w, i + 1)
    ELSE IF w[i] = b["]"] THEN <<"]">> \o Tokens(w, i + 1)
    ELSE IF w[i] = b["{"] THEN <<"{">> \o Tokens(w, i + 1)
    ELSE IF w[i] = b["}"] THEN <<"}">> \o Tokens(w, i + 1)
    ELSE IF w[i] = b[","] THEN <<",">> \o Tokens(w, i + 1)
    ELSE IF w[i] = b[":"] THEN <<":">> \o Tokens(w, i + 1)
    ELSE IF w[i] \in 48..57 THEN <<"v">> \o Tokens(w, AfterDigits(w, i))
    ELSE IF w[i] = b["\""]
    THEN IF NextQuote(w, i + 1) = 0 THEN <<"?">>
         ELSE <<"v">> \o Tokens(w, NextQuote(w, i + 1) + 1)
    ELSE IF i + 3 <= Len(w) /\ SubSeq(w, i, i + 3) = Str(<<"n", "u", "l", "l">>)
    THEN <<"v">> \o Tokens(w, i + 4)
    ELSE <<"?">>

\* a comma that leads, trails or is doubled, or two values with no comma
\* between them
MisplacedComma(t) ==
    \E i \in 1..(Len(t) - 1) :
        \/ t[i] \in {"[", "{", ","} /\ t[i+1] = ","
        \/ t[i] = "," /\ t[i+1] \in {"]", "}"}
        \/ t[i] \in {"v", "]", "}"} /\ t[i+1] \in {"v", "[", "{"}

\* w is open and close with nothing but whitespace between and around them
EmptyCollection(w, open, close) ==
    LET t == Trim(w)
    IN  /\ Len(t) >= 2
        /\ t[1] = open
        /\ t[Len(t)] = close
        /\ \A i \in 2..(Len(t) - 1) : t[i] \in {b[" "], b["\n"], b["\r"]}

\* C13: "[]" and "{}", also with whitespace between the brackets, parse to the
\* empty Array and the empty Object; a parse that succeeds has eaten no
\* leading, trailing or doubled comma and no two values without a comma
\* between them, at any depth (with such a comma the parse fails).
C13_EmptyCollectionsAndCommas ==
    pc = "done" =>
        /\ EmptyCollection(input, b["["], b["]"]) => result = OkJson(Array(<<>>))
        /\ EmptyCollection(input, b["{"], b["}"]) => result = OkJson(Object(<<>>, <<>>))
        /\ result.tag = "Ok" => ~ MisplacedComma(Tokens(Consumed, 1))

\* "[1,]" failed at the ']' that stands where an element must
C13_Witness ==
    /\ pc = "done"
    /\ input = Str(<<"[", "1", ",", "]">>)
    /\ result.kind = "UnknownIdent"
    /\ parser.peek = b["]"]

\* the byte the next look at the source gives: the buffered byte, else the
\* next item of the source, else None
Upcoming ==
    IF parser.peek # None THEN parser.peek
    ELSE IF parser.iter = <<>> THEN None
    ELSE Head(parser.iter)

\* C16: in an object a key position that does not hold a '"' makes the parse
\* fail (so null, a number, an array, an object, ':' or ',' there do); a byte
\* other than ':' after the key and whitespace fails with UnexpectedCharacter
\* carrying that byte; a byte other than ',' or '}' after a value and
\* whitespace fails with UnexpectedCharacter carrying that byte.
C16_ObjectKeysAndSeparators ==
    [][ /\ (pc = "parse_string" /\ cont = "key" /\ state = "Start"
                /\ Upcoming >= 0 /\ Upcoming # b["\""])
            => pc' = "done" /\ result'.tag = "Err"
        /\ (pc = "object_colon" /\ Upcoming >= 0 /\ Upcoming # b[":"])
            => /\ pc' = "done"
               /\ result'.tag = "Err"
               /\ result'.kind = "UnexpectedCharacter"
               /\ result'.ch = Upcoming
        /\ (pc = "object_sep" /\ Upcoming >= 0 /\ Upcoming \notin {b[","], b["}"]})
            => /\ pc' = "done"
               /\ result'.tag = "Err"
               /\ result'.kind = "UnexpectedCharacter"
               /\ result'.ch = Upcoming
        /\ pc' = "done" =>
            /\ input' \in { Str(<<"{", "n", "u", "l", "l">>), Str(<<"{", "1">>),
                            Str(<<"{", "[">>), Str(<<"{", "{", "}">>),
                            Str(<<"{", ":">>), Str(<<"{", ",">>) }
                   => result'.tag = "Err"
            /\ input' = Str(<<"{", "\"", "a", "\"", " ", "1">>)
                   => result'.kind = "UnexpectedCharacter" /\ result'.ch = b["1"]
            /\ input' = Str(<<"{", "\"", "a", "\"", ":", "1", " ", "]">>)
                   => result'.kind = "UnexpectedCharacter" /\ result'.ch = b["]"] ]_vars

\* in {"a" 1 the '1' that stands where the ':' must was reported
C16_Witness ==
    /\ pc = "done"
    /\ input = Str(<<"{", "\"", "a", "\"", " ", "1">>)
    /\ result.kind = "UnexpectedCharacter"
    /\ result.ch = b["1"]

-----------------------------------------------------------------------------
(* Claims about the tree of a well-formed array or object, under SpecTree *)

\* w without its whitespace (no text of Elements or Keys has any in a string)
NoWhitespace(w) == SelectSeq(w, LAMBDA c : c \notin {b[" "], b["\n"], b["\r"]})

\* the text of a tree: its values in order between brackets with commas, a
\* Number as its text, a String (one without escapes) between quotes
RECURSIVE TextOf(_)
TextOf(j) ==
    CASE j.t = "Null" -> Str(<<"n", "u", "l", "l">>)
      [] j.t = "Bool" -> IF j.b THEN Str(<<"t", "r", "u", "e">>)
                         ELSE Str(<<"f", "a", "l", "s", "e">>)
      [] j.t = "Number" -> j.s
      [] j.t = "String" -> Str(<<"\"">>) \o j.s \o Str(<<"\"">>)
      [] j.t = "Array" ->
            Str(<<"[">>) \o Join([i \in 1..Len(j.items) |-> TextOf(j.items[i])], Str(<<",">>))
                \o Str(<<"]">>)
      [] j.t = "Object" ->
            Str(<<"{">>)
                \o Join([i \in 1..Len(j.items) |->
                            Str(<<"\"">>) \o j.keys[i] \o Str(<<"\"">>) \o Str(<<":">>)
                                \o TextOf(j.items[i])],
                        Str(<<",">>))
                \o Str(<<"}">>)
      [] OTHER -> <<>>

\* C14: an object of n comma-separated pairs has exactly n entries, the i-th
\* being the i-th pair of the source; entries with equal keys are all kept, in
\* the order of the source.
C14_ObjectEntriesInOrder ==
    (pc = "done" /\ input[1] = b["{"]) =>
        /\ result.tag = "Ok"
        /\ result.json.t = "Object"
        /\ Len(result.json.keys) = Len(result.json.items)
        /\ TextOf(result.json) = NoWhitespace(input)
        /\ input = Str(<<"{", "\"", "a", "\"", ":", "1", ",", "\"", "a", "\"", ":", "n", "u", "l", "l", "}">>)
               => result = OkJson(Object(<<Str(<<"a">>), Str(<<"a">>)>>,
                                         <<Number(Str(<<"1">>)), Null>>))

\* {"a":1,"a":null} was returned with both entries for "a"
C14_Witness ==
    /\ pc = "done"
    /\ input = Str(<<"{", "\"", "a", "\"", ":", "1", ",", "\"", "a", "\"", ":", "n", "u", "l", "l", "}">>)
    /\ result.tag = "Ok"
    /\ result.json.keys = <<Str(<<"a">>), Str(<<"a">>)>>

\* C15: an array of n comma-separated values has exactly n elements, the i-th
\* being the tree of the i-th value of the source, and an inner array keeps
\* its own elements.
C15_ArrayElementsInOrder ==
    (pc = "done" /\ input[1] = b["["]) =>
        /\ result.tag = "Ok"
        /\ result.json.t = "Array"
        /\ TextOf(result.json) = NoWhitespace(input)
        /\ input = Str(<<"[", "[", "1", ",", "n", "u", "l", "l", "]", ",", "1", "]">>)
               => result = OkJson(Array(<<Array(<<Number(Str(<<"1">>)), Null>>),
                                          Number(Str(<<"1">>))>>))

\* [[1,null],1] was returned as an array of two elements, the first an array
\* of two
C15_Witness ==
    /\ pc = "done"
    /\ input = Str(<<"[", "[", "1", ",", "n", "u", "l", "l", "]", ",", "1", "]">>)
    /\ result.tag = "Ok"
    /\ Len(result.json.items) = 2
    /\ Len(result.json.items[1].items) = 2

-----------------------------------------------------------------------------
(* Claims about the position an error carries *)

\* the number of LF bytes among w[1..n]
RECURSIVE LinesBefore(_, _)
LinesBefore(w, n) ==
    IF n = 0 THEN 0
    ELSE LinesBefore(w, n - 1) + (IF w[n] = b["\n"] THEN 1 ELSE 0)

\* the index of the last LF among w[1..n], or 0
RECURSIVE LastLineFeed(_, _)
LastLineFeed(w, n) ==
    IF n = 0 THEN 0
    ELSE IF w[n] = b["\n"] THEN n
    ELSE LastLineFeed(w, n - 1)

\* the index in the source of the byte a failed parse_string stopped at: the
\* byte it was looking at, or the first byte of a \uXXXX group that is not a
\* hexadecimal digit
OffendingIndex ==
    IF result.kind = "Unicode"
    THEN Len(input) - Len(parser.iter) - 4
             + (CHOOSE i \in 1..4 : /\ ~ IsHex(num_str[i])
                                    /\ \A j \in 1..(i - 1) : IsHex(num_str[j]))
    ELSE Len(input) - Len(parser.iter)

\* C17: an error on an offending byte carries the position of that byte, not
\* of the start of the failing token: line is 1 plus the number of LF bytes
\* before it and col is its 1-based offset within its line.  (parse enters
\* parse_string after eat_whitespace, so on a byte that is no whitespace.)
C17_ErrorAtOffendingByte ==
    ( /\ pc = "done"
      /\ input # <<>>
      /\ input[1] \notin Whitespace
      /\ result.tag = "Err"
      /\ \/ result.kind \in {"MalformedEscape", "ExpectedString"} /\ parser.peek # None
         \/ result.kind = "Unicode" /\ \E i \in 1..4 : ~ IsHex(num_str[i]) )
        => /\ result.line = 1 + LinesBefore(input, OffendingIndex - 1)
           /\ result.col = OffendingIndex - LastLineFeed(input, OffendingIndex - 1)

\* C18: every error parse returns has line >= 1 and col >= 1.
C18_PositionsOneBased ==
    result.tag = "Err" => result.line >= 1 /\ result.col >= 1

-----------------------------------------------------------------------------
(* Claims about a failing source, under SpecIo *)

\* the index of the first Err item of the source, or 0
FirstFailure ==
    IF \E i \in 1..Len(input) : input[i] = IoErr
    THEN CHOOSE i \in 1..Len(input) : input[i] = IoErr /\ \A j \in 1..(i - 1) : input[j] # IoErr
    ELSE 0

\* the number of items pulled from the source so far
Pulled == Len(input) - Len(parser.iter)

\* C19: a failure of the source on a pull is returned by parse as an Io error
\* with the cursor's line and col at that moment; an error of any kind ends
\* the call at once, at any depth: nothing more is pulled and no tree is
\* returned.
C19_FailureEndsTheCall ==
    /\ result.tag = "Err" => pc = "done" /\ result.json = NoJson
    /\ FirstFailure # 0 => Pulled <= FirstFailure
    /\ (FirstFailure # 0 /\ Pulled = FirstFailure)
           => /\ pc = "done"
              /\ result.tag = "Err"
              /\ result.kind = "Io"
              /\ result.line = 1 + LinesBefore(input, FirstFailure - 1)
              /\ result.col = FirstFailure - 1 - LastLineFeed(input, FirstFailure - 1)

\* the source failed inside an object inside an array, and parse returned Io
C19_Witness ==
    /\ pc = "done"
    /\ Len(stack) = 2
    /\ stack[1].kind = "array"
    /\ stack[2].kind = "object"
    /\ result.kind = "Io"

-----------------------------------------------------------------------------
(* Claims about the cursor, under SpecCursor *)

\* the bytes among the first n items of w (an Err item is no byte)
BytesAmong(w, n) == SelectSeq(SubSeq(w, 1, n), LAMBDA c : c # IoErr)

\* line and col of the cursor p over the source w, the buffered byte, and what
\* the last call returned, told from the items pulled so far
CursorCounts(w, p, res) ==
    LET n == Len(w) - Len(p.iter)
        pulled == BytesAmong(w, n)
    IN  /\ p.line = 1 + LinesBefore(pulled, Len(pulled))
        /\ p.col = Len(pulled) - LastLineFeed(pulled, Len(pulled))
        /\ p.peek # None => n >= 1 /\ p.peek = w[n]
        /\ (res.tag = "Err" /\ res.kind = "Io") => n >= 1 /\ w[n] = IoErr

\* C20: after any calls of peek, peek_noeof and eat, line is 1 plus the number
\* of LF bytes pulled and col the number of bytes pulled since the last LF, so
\* each byte is counted once however often it is peeked; a peek with a byte
\* buffered pulls nothing; the buffered byte is the one pulled last.
C20_CursorCounts ==
    [][ /\ CursorCounts(input', parser', result')
        /\ parser.peek # None => parser'.iter = parser.iter
        /\ Len(parser.iter) - Len(parser'.iter) \in {0, 1} ]_vars

\* a byte after an LF was peeked a second time: still line 2, col 1
C20_Witness ==
    /\ pc = "cursor"
    /\ input = <<b["x"], b["\n"], b["x"]>>
    /\ parser.iter = <<>>
    /\ parser.peek = b["x"]
    /\ parser.line = 2
    /\ parser.col = 1
    /\ result = Ok(<<b["x"]>>)

-----------------------------------------------------------------------------
\* C21: when parse_number stops at ' ', CR, LF, ',', ':', ']' or '}', the byte
\* is not appended to the text and not consumed: the iteration that meets it
\* leaves ret and the source as they were and goes to the check after the
\* loop, the text held then has none of these bytes, and the return hands the
\* text as it is to the caller (the call under test, or the enclosing array or
\* object, which gets it as its last value), for whom the byte is still the
\* next one to peek.
C21_TerminatorLeftForCaller ==
    [][ (pc \in {"parse_number", "parse_number_end"} /\ Upcoming \in NumberTerminators) =>
          /\ Upcoming' = Upcoming
          /\ Consumed' = Consumed
          /\ peek(parser').v = Upcoming
          /\ \A i \in 1..Len(ret) : ret[i] \notin NumberTerminators
          /\ pc = "parse_number" => ret' = ret /\ pc' = "parse_number_end"
          /\ (pc = "parse_number_end" /\ state # "Start") =>
                IF stack = <<>>
                THEN pc' = "done" /\ result' = OkJson(Number(ret))
                ELSE /\ pc' = "eat_whitespace"
                     /\ cont' \in {"array_sep", "object_sep"}
                     /\ Len(stack') = Len(stack)
                     /\ LET top == stack'[Len(stack')]
                        IN  top.ret = Append(stack[Len(stack)].ret, Number(ret))
      ]_vars

\* an object that has just taken a number as a value, with the '}' the number
\* stopped at still to come
C21_Witness ==
    /\ stack # <<>>
    /\ pc = "eat_whitespace"
    /\ cont = "object_sep"
    /\ Upcoming = b["}"]
    /\ parser.peek = b["}"]
    /\ stack[Len(stack)].ret = <<Number(Str(<<"1", ".", "1">>))>>

-----------------------------------------------------------------------------
\* the index of the first apostrophe of w
FirstApostrophe(w) ==
    CHOOSE i \in 1..Len(w) : w[i] = b["'"] /\ \A j \in 1..(i - 1) : w[j] # b["'"]

\* C22: a value that starts with an apostrophe goes to the string lexer and
\* never gives a String: whatever follows the apostrophe, parse_string is
\* entered in Start with the apostrophe to come, and the parse ends with
\* ExpectedString at the position of the apostrophe, which is still buffered
\* and not consumed; nothing after it is pulled.
C22_ApostropheIsNoString ==
    LET i == FirstApostrophe(input)
    IN  /\ pc = "parse_string" => state = "Start" /\ Upcoming = b["'"] /\ Len(Consumed) = i - 1
        /\ pc # "parse_string_end" /\ state = "Start" /\ ret = <<>>
        /\ pc = "done" =>
              /\ result.tag = "Err"
              /\ result.kind = "ExpectedString"
              /\ result.json.t # "String"
              /\ result.line = 1 + LinesBefore(input, i)
              /\ result.col = i - LastLineFeed(input, i)
              /\ parser.peek = b["'"]
              /\ Pulled = i
              /\ Len(Consumed) = i - 1

\* the apostrophe of ['x' on the second line has been refused
C22_Witness ==
    /\ input = Str(<<"[", "\n", "'", "x", "'">>)
    /\ pc = "done"
    /\ result.kind = "ExpectedString"
    /\ result.line = 2
    /\ result.col = 1

-----------------------------------------------------------------------------
\* the '[' and '{' among the first n items of w, less the ']' and '}'
RECURSIVE OpenBrackets(_, _)
OpenBrackets(w, n) ==
    IF n = 0 THEN 0
    ELSE OpenBrackets(w, n - 1)
            + (IF w[n] \in {b["["], b["{"]} THEN 1
               ELSE IF w[n] \in {b["]"], b["}"]} THEN -1 ELSE 0)

\* the nesting depth of the brackets of w: the most that are open at a time
NestingDepth(w) ==
    LET opens == {OpenBrackets(w, n) : n \in 0..Len(w)}
    IN  CHOOSE d \in opens : \A e \in opens : e <= d

\* the values the arrays and objects being parsed have taken so far
RECURSIVE ValuesTaken(_)
ValuesTaken(stk) ==
    IF stk = <<>> THEN 0 ELSE Len(stk[Len(stk)].ret) + ValuesTaken(SubSeq(stk, 1, Len(stk) - 1))

\* C23: on every source, failing items included, parse ends, with a tree or
\* with an error.  A step that goes round the whitespace, number or string
\* loop again consumes a byte; every array or object being parsed has
\* consumed its opening bracket and at least one byte for each value it has
\* taken.  The arrays and objects being parsed at a time are never more than
\* the brackets open in what was consumed, so never more than the nesting
\* depth of the input.
C23_ParseTerminates ==
    /\ <>(pc = "done" /\ result.tag \in {"Ok", "Err"})
    /\ [][ (pc' = pc /\ cont' = cont
               /\ pc \in {"eat_whitespace", "parse_number", "parse_string"})
            => Len(Consumed') > Len(Consumed) ]_vars
    /\ [](Len(Consumed) >= Len(stack) + ValuesTaken(stack))
    /\ [](Len(stack) <= OpenBrackets(input, Len(Consumed)))
    /\ [](Len(stack) <= NestingDepth(input))

\* the parse of a source with an array in an array has ended with a tree
C23_Witness ==
    /\ pc = "done"
    /\ result.tag = "Ok"
    /\ result.json.t = "Array"
    /\ NestingDepth(input) = 2
    /\ Len(Consumed) = Len(input)

-----------------------------------------------------------------------------
\* the items w as a caller of next alone gets them: every byte twice, a
\* failing item once
RECURSIVE Twice(_)
Twice(w) ==
    IF w = <<>> THEN <<>>
    ELSE (IF Head(w) = IoErr THEN <<IoErr>> ELSE <<Head(w), Head(w)>>) \o Twice(Tail(w))

\* C24: driven through Iterator::next alone from a new Parser, a call with no
\* byte buffered pulls one byte, returns it and leaves it buffered, and the
\* call after it returns the same byte and pulls nothing: the items got so far
\* are the items pulled, every byte twice in a row, the second copy of the
\* last one still to come while it is buffered; line and col count every byte
\* pulled once.
C24_NextYieldsEveryByteTwice ==
    LET n == Pulled
        got == SubSeq(input, 1, n)
    IN  /\ yielded = IF parser.peek # None
                     THEN Twice(SubSeq(got, 1, n - 1)) \o <<got[n]>>
                     ELSE Twice(got)
        /\ parser.peek # None => n >= 1 /\ parser.peek = got[n] /\ yielded[Len(yielded)] = got[n]
        /\ parser.line = 1 + LinesBefore(BytesAmong(input, n), Len(BytesAmong(input, n)))
        /\ parser.col = Len(BytesAmong(input, n))
                            - LastLineFeed(BytesAmong(input, n), Len(BytesAmong(input, n)))
        /\ pc = "done" => n = Len(input) /\ yielded = Twice(input)

\* x and LF have come twice each, counted once each
C24_Witness ==
    /\ yielded = <<b["x"], b["x"], b["\n"], b["\n"]>>
    /\ Pulled = 2
    /\ parser.line = 2
    /\ parser.col = 0

=============================================================================
